---- MODULE Spec2Model ----
(***************************************************************************)
(* Model of the ffmpeg watermarking script src/shuiyin_ffmpeg.py:          *)
(*   - __main__ / process_videos_in_folder: the batch dispatcher, which    *)
(*     scans the input folder, submits one task per recognised video to a  *)
(*     ProcessPoolExecutor(max_workers=1) and collects every future;       *)
(*   - add_watermark_to_video: the retry loop around one ffprobe query,    *)
(*     one ffmpeg child process, the monitor loop (hard timeout, liveness  *)
(*     poll, select/readline, stall check, progress parsing), and the      *)
(*     except handler (terminate, grace poll, kill, reap, delete output,   *)
(*     backoff or final raise);                                            *)
(*   - the environment: the child process (exits, writes its output file,  *)
(*     reacts or not to signals), ffprobe, the file system.                *)
(* and of the OpenCV script src/shuiyin.py (section src/shuiyin.py below):  *)
(* the same dispatcher with cpu_count workers, and a call that writes a    *)
(* temporary file and moves it to the output path.                         *)
(* Time is the integer number of seconds read by time.time(), counted from *)
(* the Popen of the current attempt: the code only ever compares readings  *)
(* taken after that Popen (lines 106-137).                                 *)
(***************************************************************************)
EXTENDS Integers, Sequences, FiniteSets, TLC

\* ---------------------------------------------------------------- bounds
\* Largest clock reading explored within one attempt.
MaxClock == 33
\* Latest clock reading at which a status line of the tool reaches the reader;
\* after it the tool is silent until it exits.
LastLine == 3
\* Largest frame number the tool reports.
MaxFrame == 1
\* Largest max_retries a direct call passes (SpecCall); the smallest is -1.
MaxRetriesArg == 3
\* The short timeout a direct call may pass instead of the default (SpecCall).
ShortTimeout == 2
\* How many progress records fit into the pipe behind the child's standard
\* output before a further write blocks.
PipeCapacity == 1
\* multiprocessing.cpu_count() of the machine that runs src/shuiyin.py (SpecCv).
cpu_count == 2

\* ------------------------------------------------------ program constants
StallWindow == 30
SelectTimeout == 1
BaseDelay == 5
DefaultMaxRetries == 3
DefaultTimeout == 3600

VARIABLES
  os_name,            \* os.name: "posix" or "nt"
  ffmpeg_installed,   \* whether `ffmpeg -version` can be run (check_ffmpeg)
  listdir,            \* the entries of input_folder
  out_dir,            \* whether output_folder exists
  cvjob,              \* src/shuiyin.py only: per submitted task, where its call
                      \* of the OpenCV add_watermark_to_video is and the
                      \* temporary path it writes
  files,              \* the output paths at which a file exists
  dpc,                \* dispatcher position: main, scan, submit, collect, exited
  tasks,              \* the task list built by the scan
  di,                 \* index of the dispatcher's current loop
  futures,            \* the submitted futures, in submission order
  collected,          \* what the collect loop has taken from the futures
  exit_status,        \* {} while the script runs, {code} once it has ended
  nresults,           \* per future, how many times a result was set
  job,                \* index of the future the worker is running (0: none yet)
  pc,                 \* worker position inside add_watermark_to_video
  max_retries,
  timeout,
  retry_count,
  process,            \* 0 for None, else the number of the attempt that spawned it
  returncode,         \* process.returncode: <<>> for None, else <<code>>
  total_frames,
  current_frame,
  last_frame,
  start_time,
  last_progress_time,
  current_time,       \* kept only while readline() blocks
  wait_time,
  exc,                \* the exception caught by the handler ("none" before any)
  pstat,              \* the current child: none, running, exited
  pcode,              \* its exit status once exited
  pid,                \* whose process.pid is: none, own (the child, alive or
                      \* not yet reaped), free (the child was reaped), reused
                      \* (another process got the number), hit (that process
                      \* was signalled by the handler)
  orphans,            \* jobs with a child of an earlier attempt still running
  now,                \* time.time()
  stdout_pipe,        \* progress records the child has written, or is blocked
                      \* writing, to its standard output pipe
  attempts,           \* attempts begun in the current call
  slept,              \* the backoff sleeps of the current call, in order
  advanced            \* whether the observed frame number ever changed in this attempt

envvars == <<os_name, ffmpeg_installed, listdir, out_dir, cvjob>>
dvars == <<dpc, tasks, di, collected, exit_status>>
callvars == <<job, max_retries, timeout>>
monvars == <<total_frames, current_frame, last_frame, start_time,
             last_progress_time, current_time, now, advanced, stdout_pipe>>
procvars == <<process, returncode, pstat, pcode, pid>>
histvars == <<attempts, slept>>
vars == <<os_name, ffmpeg_installed, listdir, out_dir, cvjob, files, dpc, tasks, di,
          futures, collected, exit_status, nresults, job, pc, max_retries,
          timeout, retry_count, process, returncode, total_frames,
          current_frame, last_frame, start_time, last_progress_time,
          current_time, wait_time, exc, pstat, pcode, pid, orphans, now,
          attempts, slept, advanced, stdout_pipe>>

\* ------------------------------------------------------------ file names
\* A file name is a sequence of characters.
Entries ==
  { <<"a", ".", "m", "p", "4">>,
    <<"b", ".", "M", "K", "V">>,
    <<"c", ".", "t", "x", "t">> }

video_extensions ==
  { <<".", "m", "p", "4">>, <<".", "a", "v", "i">>,
    <<".", "m", "o", "v">>, <<".", "m", "k", "v">> }

LowerChar(c) ==
  CASE c = "M" -> "m" [] c = "K" -> "k" [] c = "V" -> "v" [] c = "P" -> "p"
    [] c = "A" -> "a" [] c = "I" -> "i" [] c = "O" -> "o" [] OTHER -> c

lowerUnchanged(s) == s

\* str.lower()
lower(s) == [i \in 1..Len(s) |-> LowerChar(s[i])]

endswith(s, suffixes) ==
  \E x \in suffixes :
    /\ Len(x) <= Len(s)
    /\ SubSeq(s, Len(s) - Len(x) + 1, Len(s)) = x

input_folder == "input"
output_folder == "output"
watermark_text == "TikTok"

\* os.path.join(folder, filename)
join(folder, filename) == <<folder, filename>>

\* All orders in which os.listdir may return the entries of a folder.
RECURSIVE Listings(_)
Listings(S) ==
  IF S = {} THEN { <<>> }
  ELSE UNION { { <<x>> \o l : l \in Listings(S \ {x}) } : x \in S }

\* The task list built from one listing (lines 222-228).
RECURSIVE BuildTasks(_)
BuildTasks(listing) ==
  IF listing = <<>> THEN <<>>
  ELSE LET filename == Head(listing)
           rest == BuildTasks(Tail(listing))
       IN IF endswith(lower(filename), video_extensions)
          THEN << [input_path |-> join(input_folder, filename),
                   output_path |-> join(output_folder, filename),
                   text |-> watermark_text] >> \o rest
          ELSE rest


\* --------------------------------------------------------------- futures
PendingFuture == [state |-> "pending", outcome |-> "none", message |-> <<>>]

FinishedFuture(outcome, message) ==
  [state |-> "finished", outcome |-> outcome, message |-> message]

\* The output path of the task the worker is running.
output_video_path == tasks[job].output_path

\* ------------------------------------------------------------ initial states
WorkerInit ==
  /\ job = 0 /\ pc = "idle"
  /\ max_retries = 0 /\ timeout = 0 /\ retry_count = 0
  /\ process = 0 /\ returncode = <<>>
  /\ total_frames = 0 /\ current_frame = 0 /\ last_frame = 0
  /\ start_time = 0 /\ last_progress_time = 0 /\ current_time = 0
  /\ wait_time = 0 /\ exc = "none"
  /\ pstat = "none" /\ pcode = 0 /\ pid = "none" /\ orphans = {}
  /\ now = 0 /\ attempts = 0 /\ slept = <<>>
  /\ advanced = FALSE /\ stdout_pipe = 0

\* The script is started (line 272): nothing is scanned or submitted yet.
Init ==
  /\ os_name \in {"posix", "nt"}
  /\ ffmpeg_installed \in BOOLEAN
  /\ listdir \in {Entries}
  /\ out_dir \in BOOLEAN
  /\ cvjob = <<>>
  /\ files = {}
  /\ dpc = "main" /\ tasks = <<>> /\ di = 0
  /\ futures = <<>> /\ collected = <<>> /\ exit_status = {}
  /\ nresults = <<>>
  /\ WorkerInit

\* ---------------------------------------------------------------- dispatcher
\* __main__, lines 272-279: exit(1) when ffmpeg is not installed.
Main ==
  /\ dpc = "main"
  /\ IF ffmpeg_installed
     THEN dpc' = "scan" /\ exit_status' = exit_status
     ELSE dpc' = "exited" /\ exit_status' = {1}
  /\ UNCHANGED <<envvars, files, tasks, di, futures, collected, nresults,
                 callvars, pc, retry_count, procvars, monvars, wait_time, exc,
                 orphans, histvars>>

\* process_videos_in_folder, lines 214-238: create the output folder, build
\* the task list; with no task the function returns and the script ends.
Scan ==
  /\ dpc = "scan"
  /\ out_dir' = TRUE
  /\ \E listing \in Listings(listdir) :
       /\ tasks' = BuildTasks(listing)
       /\ IF tasks' = <<>>
          THEN dpc' = "exited" /\ exit_status' = {0} /\ di' = di
          ELSE dpc' = "submit" /\ exit_status' = exit_status /\ di' = 1
  /\ UNCHANGED <<os_name, ffmpeg_installed, listdir, cvjob, files, futures,
                 collected, nresults, callvars, pc, retry_count, procvars, monvars,
                 wait_time, exc, orphans, histvars>>

\* Lines 243-253: submit the next task, or go on to the collect loop.
Submit ==
  /\ dpc = "submit"
  /\ IF di <= Len(tasks)
     THEN /\ futures' = Append(futures, PendingFuture)
          /\ nresults' = Append(nresults, 0)
          /\ di' = di + 1
          /\ dpc' = dpc
     ELSE /\ dpc' = "collect"
          /\ di' = 1
          /\ UNCHANGED <<futures, nresults>>
  /\ UNCHANGED <<envvars, files, tasks, collected, exit_status, callvars, pc,
                 retry_count, procvars, monvars, wait_time, exc, orphans,
                 histvars>>

\* Lines 256-260: future.result() of the next future, which blocks until the
\* future is finished; its exception is caught and printed. After the last
\* future the function returns and the script ends with status 0.
ResultUnhandled(i) ==
  IF futures[i].outcome = "raised"
  THEN dpc' = "exited" /\ exit_status' = {1} /\ di' = di
  ELSE di' = di + 1 /\ UNCHANGED <<dpc, exit_status>>

\* Lines 257-260: the try/except around future.result(): whether the future
\* returned or raised, the loop goes on to the next future.
ResultHandled(i) ==
  di' = di + 1 /\ UNCHANGED <<dpc, exit_status>>

Collect ==
  /\ dpc = "collect"
  /\ IF di <= Len(futures)
     THEN /\ futures[di].state = "finished"
          /\ collected' = Append(collected,
                                  [future |-> di, outcome |-> futures[di].outcome,
                                   message |-> futures[di].message])
          /\ ResultHandled(di)
     ELSE /\ dpc' = "exited"
          /\ exit_status' = {0}
          /\ UNCHANGED <<collected, di>>
  /\ UNCHANGED <<envvars, files, tasks, futures, nresults, callvars, pc,
                 retry_count, procvars, monvars, wait_time, exc, orphans,
                 histvars>>

\* ------------------------------------------------- add_watermark_to_video
\* What no step of the worker changes.
dside == <<envvars, dpc, tasks, di, collected, exit_status>>

\* What ffprobe's standard output can be (line 73): digits, a non-numeric
\* text such as N/A, nothing; or the run fails (TimeoutExpired after 30 s,
\* FileNotFoundError).
ProbeResults ==
  { [kind |-> "digits", value |-> n] : n \in {0, MaxFrame} }
    \cup { [kind |-> k, value |-> 0] : k \in {"text", "empty", "timeout", "missing"} }

\* What one line of the tool's status stream can be: a progress line with a
\* frame number, a line that holds frame= followed by no integer, any other line.
Lines ==
  { [kind |-> "frame", value |-> n] : n \in 0..MaxFrame }
    \cup { [kind |-> k, value |-> 0] : k \in {"garbled", "other"} }

NoOutput == [kind |-> "none", value |-> 0]

\* The monitor loop is left, or a new call begins. No step reads the clock or
\* the readings start_time and last_progress_time again before the next Popen
\* assigns them (lines 106-107), so they are not carried further.
LeaveLoop ==
  /\ now' = 0 /\ start_time' = 0 /\ last_progress_time' = 0
  /\ current_time' = 0 /\ advanced' = FALSE

\* The worker of the pool takes the oldest pending task (line 245): the call
\* add_watermark_to_video(input_path, output_path, text, max_retries=3,
\* timeout=3600) begins, line 51. The children that earlier calls left
\* running are not followed further.
WorkerStart ==
  /\ pc = "idle"
  /\ \E i \in 1..Len(futures) :
       /\ futures[i].state = "pending"
       /\ \A k \in 1..(i - 1) : futures[k].state # "pending"
       /\ job' = i
       /\ futures' = [futures EXCEPT ![i].state = "running"]
  /\ max_retries' = DefaultMaxRetries
  /\ timeout' = DefaultTimeout
  /\ retry_count' = 0
  /\ orphans' = {}
  /\ process' = 0 /\ returncode' = <<>> /\ pstat' = "none" /\ pcode' = 0
  /\ pid' = "none"
  /\ exc' = "none" /\ wait_time' = 0
  /\ attempts' = 0 /\ slept' = <<>>
  /\ total_frames' = 0 /\ current_frame' = 0 /\ last_frame' = 0
  /\ stdout_pipe' = 0
  /\ LeaveLoop
  /\ pc' = "loop"
  /\ UNCHANGED <<dside, files, nresults>>

FinishBreakingPool(outcome, message) ==
  /\ futures' = [i \in DOMAIN futures |->
                   IF i = job THEN FinishedFuture(outcome, message)
                   ELSE IF outcome = "raised" /\ futures[i].state = "pending"
                        THEN FinishedFuture("raised", <<"BrokenProcessPool">>)
                        ELSE futures[i]]
  /\ nresults' = [nresults EXCEPT ![job] = @ + 1]
  /\ pc' = "idle"

\* The call ends: the future gets its result or its exception.
Finish(outcome, message) ==
  /\ futures' = [futures EXCEPT ![job] = FinishedFuture(outcome, message)]
  /\ nresults' = [nresults EXCEPT ![job] = @ + 1]
  /\ pc' = "idle"

\* Lines 52-53: the loop test. A new attempt drops the previous process
\* handle (process = None); with the test false the function falls off its
\* end and returns None.
LoopCondition == retry_count < max_retries

LoopTest ==
  /\ pc = "loop"
  /\ IF LoopCondition
     THEN /\ pc' = "probe"
          /\ attempts' = attempts + 1
          /\ orphans' = IF pstat = "running" THEN orphans \cup {job} ELSE orphans
          /\ process' = 0 /\ returncode' = <<>> /\ pstat' = "none" /\ pcode' = 0
          /\ pid' = "none"
          /\ UNCHANGED <<futures, nresults>>
     ELSE /\ Finish("returned", <<>>)
          /\ UNCHANGED <<attempts, orphans, procvars>>
  /\ UNCHANGED <<dside, files, callvars, retry_count, monvars, wait_time, exc,
                 slept>>

\* Lines 55-74: the font, then ffprobe and int(result.stdout.strip()). Any
\* failure here is an exception caught at line 157.
Probe ==
  /\ pc = "probe"
  /\ \E r \in ProbeResults :
       IF r.kind = "digits"
       THEN total_frames' = r.value /\ pc' = "popen" /\ exc' = exc
       ELSE total_frames' = total_frames /\ pc' = "except" /\ exc' = "MetadataQuery"
  /\ UNCHANGED <<dside, files, futures, nresults, callvars, retry_count,
                 procvars, current_frame, last_frame, start_time,
                 last_progress_time, current_time, now, advanced, stdout_pipe,
                 wait_time, orphans, histvars>>

MonitorInitFirstAttemptOnly ==
  IF attempts = 1
  THEN /\ current_frame' = 0 /\ start_time' = now'
       /\ last_progress_time' = start_time' /\ last_frame' = 0
       /\ advanced' = FALSE
  ELSE UNCHANGED <<current_frame, start_time, last_progress_time, last_frame,
                   advanced>>

\* Lines 104-108: the monitor's variables are initialised for this attempt.
MonitorInit ==
  /\ current_frame' = 0 /\ start_time' = now'
  /\ last_progress_time' = start_time' /\ last_frame' = 0
  /\ advanced' = FALSE

\* Lines 76-109: Popen of ffmpeg. It raises (OSError) or gives a running child;
\* then the monitor's variables are initialised.
Popen ==
  /\ pc = "popen"
  /\ \E ok \in BOOLEAN :
       IF ok
       THEN /\ process' = attempts /\ returncode' = <<>>
            /\ pstat' = "running" /\ pcode' = 0 /\ pid' = "own"
            /\ now' = 0 /\ stdout_pipe' = 0
            /\ MonitorInit
            /\ pc' = "monitor" /\ exc' = exc
       ELSE /\ pc' = "except" /\ exc' = "Launch"
            /\ UNCHANGED <<procvars, now, current_frame, start_time,
                           last_progress_time, last_frame, advanced, stdout_pipe>>
  /\ UNCHANGED <<dside, files, futures, nresults, callvars, retry_count,
                 total_frames, current_time, wait_time, orphans, attempts, slept>>

\* ffmpeg writes a progress record to its standard output (-progress pipe:1,
\* line 91) with every status line it prints. The pipe of line 98 is never
\* read: once it is full the child is blocked in that write, prints nothing
\* more and cannot finish.
Blocked == pstat = "running" /\ stdout_pipe > PipeCapacity

\* Lines 131-147, after the read of this iteration gave `output`: the stall
\* check on the time sampled at the top of the iteration, then the parse of a
\* progress line. `dt` is the time the read took.
HandleOutput(ct, output, dt) ==
  LET window == ct - last_progress_time > StallWindow
      stalled == window /\ current_frame = last_frame
      lpt1 == IF window THEN ct ELSE last_progress_time
      has_field == output.kind \in {"frame", "garbled"}
      parsed == output.kind = "frame"
      divided == parsed /\ total_frames # 0
  IN /\ now + dt <= (IF output = NoOutput THEN MaxClock ELSE LastLine)
     /\ output # NoOutput => ~Blocked
     /\ stdout_pipe' = IF output.kind = "frame" THEN stdout_pipe + 1 ELSE stdout_pipe
     /\ IF stalled
        THEN /\ pc' = "except" /\ exc' = "Stall"
             /\ LeaveLoop
             /\ UNCHANGED <<current_frame, last_frame>>
        ELSE /\ pc' = "monitor" /\ exc' = exc
             /\ now' = now + dt
             /\ start_time' = start_time
             /\ current_time' = 0
             /\ last_frame' = IF window THEN current_frame ELSE last_frame
             /\ current_frame' = IF has_field /\ parsed THEN output.value
                                 ELSE current_frame
             /\ last_progress_time' = IF divided THEN ct ELSE lpt1
             /\ advanced' = (advanced \/ current_frame' # current_frame)

\* What the read of one iteration can give while the child keeps its stream
\* open (lines 121-129): on posix, select waits up to 1 s and readline follows
\* only when the stream is readable; on nt, readline is called at once. A
\* readline that finds no complete line blocks.
Reads ==
  { [output |-> l, dt |-> d, blocks |-> FALSE] : l \in Lines, d \in 0..SelectTimeout }
    \cup { [output |-> NoOutput, dt |-> 0, blocks |-> TRUE] }
    \cup IF os_name # "nt"
         THEN { [output |-> NoOutput, dt |-> SelectTimeout, blocks |-> FALSE] }
         ELSE {}

\* process.poll() and process.wait() reap a child that has exited: its pid is
\* free for the system to give to another process.
PidAfterPoll == IF pstat = "exited" /\ pid = "own" THEN "free" ELSE pid

\* Lines 111-147: one iteration of the monitor loop.
Monitor ==
  /\ pc = "monitor"
  /\ IF now - start_time > timeout
     THEN /\ pc' = "except" /\ exc' = "Timeout"
          /\ LeaveLoop
          /\ UNCHANGED <<returncode, pid, total_frames, current_frame, last_frame,
                         stdout_pipe>>
     ELSE IF pstat # "running"
     THEN /\ returncode' = <<pcode>>
          /\ pid' = PidAfterPoll
          /\ pc' = "check" /\ exc' = exc
          /\ LeaveLoop
          /\ UNCHANGED <<total_frames, current_frame, last_frame, stdout_pipe>>
     ELSE /\ UNCHANGED <<returncode, pid>>
          /\ \E r \in Reads :
               IF r.blocks
               THEN /\ pc' = "readline" /\ exc' = exc
                    /\ current_time' = now
                    /\ UNCHANGED <<total_frames, current_frame, last_frame,
                                   start_time, last_progress_time, now, advanced,
                                   stdout_pipe>>
               ELSE /\ HandleOutput(now, r.output, r.dt)
                    /\ UNCHANGED total_frames
  /\ UNCHANGED <<dside, files, futures, nresults, callvars, retry_count,
                 process, pstat, pcode, wait_time, orphans, histvars>>

\* readline() returns after having blocked: a line was completed after some
\* time, or the child has exited and the stream is at its end.
Readline ==
  /\ pc = "readline"
  /\ IF pstat = "running"
     THEN \E l \in Lines, d \in 0..(LastLine - now) : HandleOutput(current_time, l, d)
     ELSE HandleOutput(current_time, NoOutput, 0)
  /\ UNCHANGED <<dside, files, futures, nresults, callvars, retry_count,
                 procvars, total_frames, wait_time, orphans, histvars>>

\* Lines 149-155: the loop was left because the child has exited.
CheckResult ==
  /\ pc = "check"
  /\ IF returncode # <<0>>
     THEN /\ pc' = "except" /\ exc' = "ExitStatus"
          /\ UNCHANGED <<futures, nresults>>
     ELSE /\ Finish("returned", <<>>)
          /\ exc' = exc
  /\ UNCHANGED <<dside, files, callvars, retry_count, procvars, monvars,
                 wait_time, orphans, histvars>>

\* Lines 157-162: the handler is entered; the attempt is counted.
Except ==
  /\ pc = "except"
  /\ retry_count' = retry_count + 1
  /\ pc' = IF process # 0 THEN "terminate" ELSE "cleanup"
  /\ UNCHANGED <<dside, files, futures, nresults, callvars, procvars, monvars,
                 wait_time, exc, orphans, histvars>>

\* How a signalling step of the handler can end: the child dies of the signal,
\* the step passes without the child dying (it ignores or has not yet acted on
\* the signal, or it is gone already), or the step raises.
SignalOutcomes == {"dies", "passes", "raises"}

\* One signalling step at `here` with signal number `sig`: on to `next`, or to
\* the handler of line 189 and from there to the cleanup of the output file.
Signal(sig, next) ==
  \E o \in SignalOutcomes :
    /\ o = "dies" => pstat = "running"
    /\ pstat' = IF o = "dies" THEN "exited" ELSE pstat
    /\ pcode' = IF o = "dies" THEN 0 - sig ELSE pcode
    /\ pc' = IF o = "raises" THEN "cleanup" ELSE next

\* Line 167: os.getpgid(process.pid) and os.killpg look the number up in the
\* system, whatever the Popen object knows: when the number now belongs to
\* another process, that process's group gets the signal. process.terminate()
\* (lines 169, 171) does nothing once the child was reaped.
PidAfterKillpg == IF os_name # "nt" /\ pid = "reused" THEN "hit" ELSE pid

\* Lines 163-171: SIGTERM to the process group, or process.terminate().
Terminate ==
  /\ pc = "terminate"
  /\ Signal(15, "grace")
  /\ pid' = PidAfterKillpg
  /\ UNCHANGED <<dside, files, futures, nresults, callvars, retry_count,
                 process, returncode, monvars, wait_time, exc, orphans, histvars>>

\* Lines 173-177: up to 50 polls, 0.1 s apart.
Grace ==
  /\ pc = "grace"
  /\ returncode' = IF pstat = "running" THEN returncode ELSE <<pcode>>
  /\ pid' = PidAfterPoll
  /\ pc' = "kill"
  /\ UNCHANGED <<dside, files, futures, nresults, callvars, retry_count,
                 process, pstat, pcode, monvars, wait_time, exc, orphans, histvars>>

\* Lines 179-185: SIGKILL when the child has still not exited.
Kill ==
  /\ pc = "kill"
  /\ IF pstat = "running"
     THEN Signal(9, "reap") /\ UNCHANGED <<returncode, pid>>
     ELSE /\ pc' = "reap" /\ returncode' = <<pcode>> /\ pid' = PidAfterPoll
          /\ UNCHANGED <<pstat, pcode>>
  /\ UNCHANGED <<dside, files, futures, nresults, callvars, retry_count,
                 process, monvars, wait_time, exc, orphans, histvars>>

\* Line 187: process.wait(timeout=1); TimeoutExpired when the child still
\* runs, caught at line 189.
Reap ==
  /\ pc = "reap"
  /\ returncode' = IF pstat = "running" THEN returncode ELSE <<pcode>>
  /\ pid' = PidAfterPoll
  /\ pc' = "cleanup"
  /\ UNCHANGED <<dside, files, futures, nresults, callvars, retry_count,
                 process, pstat, pcode, monvars, wait_time, exc, orphans, histvars>>

\* Lines 192-198: delete the output file when there is one; os.remove may
\* raise, which is caught and printed.
Cleanup ==
  /\ pc = "cleanup"
  /\ \E removed \in BOOLEAN :
       files' = IF output_video_path \in files /\ removed
                THEN files \ {output_video_path} ELSE files
  /\ pc' = "backoff"
  /\ UNCHANGED <<dside, futures, nresults, callvars, retry_count, procvars,
                 monvars, wait_time, exc, orphans, histvars>>

\* Line 208: the exception raised once the retries are used up.
FinalException == <<"RetriesExhausted", max_retries>>

\* Lines 200-208: sleep and go round the loop again (the name e of the caught
\* exception is unbound when the except clause is left), or raise.
MayRetryOffByOne == retry_count <= max_retries

\* Line 201: whether another attempt follows.
MayRetry == retry_count < max_retries

BackoffDelayConstant == BaseDelay

\* Line 202: the wait before the next attempt.
BackoffDelay == BaseDelay * retry_count

Backoff ==
  /\ pc = "backoff"
  /\ IF MayRetry
     THEN /\ wait_time' = BackoffDelay
          /\ slept' = Append(slept, wait_time')
          /\ pc' = "loop"
          /\ exc' = "none"
          /\ UNCHANGED <<futures, nresults>>
     ELSE /\ Finish("raised", FinalException)
          /\ UNCHANGED <<wait_time, slept, exc>>
  /\ UNCHANGED <<dside, files, callvars, retry_count, procvars, monvars,
                 orphans, attempts>>

\* ------------------------------------------------------------ environment
\* The child of the current attempt exits by itself, with status 0 or 1.
ProcExit ==
  /\ pstat = "running" /\ ~Blocked
  /\ pstat' = "exited"
  /\ pcode' \in {0, 1}
  /\ UNCHANGED <<dside, files, futures, nresults, callvars, pc, retry_count,
                 process, returncode, pid, monvars, wait_time, exc, orphans,
                 histvars>>

\* The system gives the number of a reaped child to a new process.
PidReuse ==
  /\ pid = "free"
  /\ pid' = "reused"
  /\ UNCHANGED <<dside, files, futures, nresults, callvars, pc, retry_count,
                 process, returncode, pstat, pcode, monvars, wait_time, exc,
                 orphans, histvars>>

\* A child left running by an earlier attempt exits.
OrphanExit ==
  /\ \E j \in orphans : orphans' = orphans \ {j}
  /\ UNCHANGED <<dside, files, futures, nresults, callvars, pc, retry_count,
                 procvars, monvars, wait_time, exc, histvars>>

\* The jobs one of whose children is running.
Running == orphans \cup (IF pstat = "running" THEN {job} ELSE {})

\* A running child creates its output file (ffmpeg -y output_video_path).
ProcWrite ==
  /\ \E j \in Running :
       /\ tasks[j].output_path \notin files
       /\ files' = files \cup {tasks[j].output_path}
  /\ UNCHANGED <<dside, futures, nresults, callvars, pc, retry_count, procvars,
                 monvars, wait_time, exc, orphans, histvars>>

\* ------------------------------------------------------------ specifications
WorkerStep ==
  \/ LoopTest \/ Probe \/ Popen \/ Monitor \/ Readline \/ CheckResult
  \/ Except \/ Terminate \/ Grace \/ Kill \/ Reap \/ Cleanup \/ Backoff

EnvStep == ProcExit \/ OrphanExit \/ ProcWrite \/ PidReuse

\* The script, from its start to its exit.
Next == Main \/ Scan \/ Submit \/ Collect \/ WorkerStart \/ WorkerStep \/ EnvStep

Spec == Init /\ [][Next]_vars

\* One direct call add_watermark_to_video(input, output, text, max_retries,
\* timeout) with any arguments, outside the pool.
InitCall ==
  /\ os_name \in {"posix", "nt"}
  /\ ffmpeg_installed = TRUE
  /\ listdir = { <<"a", ".", "m", "p", "4">> }
  /\ out_dir = TRUE
  /\ cvjob = <<>>
  /\ tasks = BuildTasks(<< <<"a", ".", "m", "p", "4">> >>)
  /\ files \in SUBSET { tasks[1].output_path }
  /\ dpc = "call" /\ di = 0
  /\ futures = << [PendingFuture EXCEPT !.state = "running"] >>
  /\ collected = <<>> /\ exit_status = {}
  /\ nresults = <<0>>
  /\ job = 1 /\ pc = "loop"
  /\ max_retries \in (0 - 1)..MaxRetriesArg
  /\ timeout \in {ShortTimeout, DefaultTimeout}
  /\ retry_count = 0
  /\ process = 0 /\ returncode = <<>>
  /\ total_frames = 0 /\ current_frame = 0 /\ last_frame = 0
  /\ start_time = 0 /\ last_progress_time = 0 /\ current_time = 0
  /\ wait_time = 0 /\ exc = "none"
  /\ pstat = "none" /\ pcode = 0 /\ pid = "none" /\ orphans = {}
  /\ now = 0 /\ attempts = 0 /\ slept = <<>>
  /\ advanced = FALSE /\ stdout_pipe = 0

NextCall == WorkerStep \/ EnvStep

\* The names an input folder may hold when only the scan and the submissions
\* of process_videos_in_folder are followed (SpecScan).
ScanEntries ==
  Entries \cup { <<"d", ".", "A", "v", "i">>, <<"e", ".", "m", "o", "v">>,
                 <<"m", "p", "4">> }

InitScan ==
  /\ os_name \in {"posix", "nt"}
  /\ ffmpeg_installed \in BOOLEAN
  /\ listdir \in SUBSET ScanEntries
  /\ out_dir \in BOOLEAN
  /\ cvjob = <<>>
  /\ files = {}
  /\ dpc = "main" /\ tasks = <<>> /\ di = 0
  /\ futures = <<>> /\ collected = <<>> /\ exit_status = {}
  /\ nresults = <<>>
  /\ WorkerInit

NextScan == Main \/ Scan \/ Submit

\* The script up to the end of its submissions, for any content of the folder.
SpecScan == InitScan /\ [][NextScan]_vars

SpecCall == InitCall /\ [][NextCall]_vars

\* ---------------------------------------------------------- src/shuiyin.py
\* The OpenCV script: the same scan, submit and collect loops, a pool of
\* cpu_count workers, and add_watermark_to_video writing a temporary file
\* that is moved to the output path at the end.
CvEntries ==
  { <<"a", ".", "m", "p", "4">>, <<"a", ".", "a", "v", "i">>,
    <<"b", ".", "M", "K", "V">>, <<"c", ".", "t", "x", "t">> }

\* What the steps of src/shuiyin.py never change.
ffvars == <<os_name, ffmpeg_installed, listdir, callvars, pc, retry_count,
            procvars, monvars, wait_time, exc, orphans, histvars>>

\* f'watermarked_{filename}', line 158.
watermarked(filename) == <<"watermarked_">> \o filename

\* The task list built from one listing (lines 154-159).
RECURSIVE CvBuildTasks(_)
CvBuildTasks(listing) ==
  IF listing = <<>> THEN <<>>
  ELSE LET filename == Head(listing)
           rest == CvBuildTasks(Tail(listing))
       IN IF endswith(lower(filename), video_extensions)
          THEN << [input_path |-> join(input_folder, filename),
                   output_path |-> join(output_folder, watermarked(filename)),
                   text |-> watermark_text] >> \o rest
          ELSE rest

\* s.rsplit('.', 1)[0]: what precedes the last dot of s, or s without a dot.
rsplit_head(s) ==
  LET dots == { i \in 1..Len(s) : s[i] = "." }
  IN IF dots = {} THEN s
     ELSE SubSeq(s, 1, (CHOOSE i \in dots : \A k \in dots : k <= i) - 1)

\* Lines 32 and 39: output_video_path.rsplit('.', 1)[0] + '_temp.mp4' / '_temp.avi'.
\* The folder of the model's paths holds no dot.
temp_output_path(path, suffix) ==
  <<path[1], rsplit_head(path[2]) \o <<"_temp", ".">> \o suffix>>

\* Lines 147-159 (and line 186, the call): create the output folder and build
\* the task list.
CvScan ==
  /\ dpc = "scan"
  /\ out_dir' = TRUE
  /\ \E listing \in Listings(listdir) : tasks' = CvBuildTasks(listing)
  /\ dpc' = "submit" /\ di' = 1
  /\ UNCHANGED <<ffvars, cvjob, files, futures, collected, nresults, exit_status>>

\* Lines 165-170: submit the next task, or go on to the collect loop.
CvSubmit ==
  /\ dpc = "submit"
  /\ IF di <= Len(tasks)
     THEN /\ futures' = Append(futures, PendingFuture)
          /\ nresults' = Append(nresults, 0)
          /\ cvjob' = Append(cvjob, [pc |-> "queued", temp |-> <<>>])
          /\ di' = di + 1
          /\ dpc' = dpc
     ELSE /\ dpc' = "collect"
          /\ di' = 1
          /\ UNCHANGED <<futures, nresults, cvjob>>
  /\ UNCHANGED <<ffvars, out_dir, files, tasks, collected, exit_status>>

\* Lines 173-178: future.result() of the next future; its exception is caught
\* and printed. After the last one the script ends.
CvCollect ==
  /\ dpc = "collect"
  /\ IF di <= Len(futures)
     THEN /\ futures[di].state = "finished"
          /\ collected' = Append(collected,
                                  [future |-> di, outcome |-> futures[di].outcome,
                                   message |-> futures[di].message])
          /\ di' = di + 1
          /\ UNCHANGED <<dpc, exit_status>>
     ELSE /\ dpc' = "exited"
          /\ exit_status' = {0}
          /\ UNCHANGED <<collected, di>>
  /\ UNCHANGED <<ffvars, out_dir, cvjob, files, tasks, futures, nresults>>

\* The call of task i ends.
CvFinish(i, outcome, message) ==
  /\ futures' = [futures EXCEPT ![i] = FinishedFuture(outcome, message)]
  /\ nresults' = [nresults EXCEPT ![i] = @ + 1]
  /\ cvjob' = [cvjob EXCEPT ![i].pc = "done"]

\* A free worker of the pool (line 162: cpu_count of them) takes the oldest
\* pending task: add_watermark_to_video begins, line 18.
CvStart(i) ==
  /\ i \in 1..Len(futures)
  /\ futures[i].state = "pending"
  /\ \A k \in 1..(i - 1) : futures[k].state # "pending"
  /\ Cardinality({ k \in 1..Len(futures) : futures[k].state = "running" }) < cpu_count
  /\ futures' = [futures EXCEPT ![i].state = "running"]
  /\ cvjob' = [cvjob EXCEPT ![i].pc = "open"]
  /\ UNCHANGED <<ffvars, out_dir, files, dpc, tasks, di, collected, exit_status,
                 nresults>>

\* Lines 18-43: the VideoWriter is opened on the temporary .mp4 path, or, when
\* that encoder fails, on the temporary .avi path; an opened writer has created
\* its file. With both failing the call raises.
CvOpenWriter(i) ==
  /\ i \in 1..Len(cvjob)
  /\ cvjob[i].pc = "open"
  /\ \E opened \in {"mp4", "avi", "none"} :
       LET suffix == IF opened = "mp4" THEN <<"m", "p", "4">> ELSE <<"a", "v", "i">>
           temp == temp_output_path(tasks[i].output_path, suffix)
       IN IF opened = "none"
          THEN /\ CvFinish(i, "raised", <<"EncoderInit">>)
               /\ files' = files
          ELSE /\ cvjob' = [cvjob EXCEPT ![i] = [pc |-> "frames", temp |-> temp]]
               /\ files' = files \cup {temp}
               /\ UNCHANGED <<futures, nresults>>
  /\ UNCHANGED <<ffvars, out_dir, dpc, tasks, di, collected, exit_status>>

\* Lines 46-134: the frames are written to the temporary file and the writer
\* is released.
CvFrames(i) ==
  /\ i \in 1..Len(cvjob)
  /\ cvjob[i].pc = "frames"
  /\ cvjob' = [cvjob EXCEPT ![i].pc = "move"]
  /\ files' = files \cup {cvjob[i].temp}
  /\ UNCHANGED <<ffvars, out_dir, dpc, tasks, di, collected, exit_status,
                 futures, nresults>>

\* Lines 137-140: when the temporary file exists, the output file is removed
\* and the temporary file renamed to the output path; the call returns.
CvMove(i) ==
  /\ i \in 1..Len(cvjob)
  /\ cvjob[i].pc = "move"
  /\ files' = IF cvjob[i].temp \in files
              THEN (files \ {cvjob[i].temp}) \cup {tasks[i].output_path}
              ELSE files
  /\ CvFinish(i, "returned", <<>>)
  /\ UNCHANGED <<ffvars, out_dir, dpc, tasks, di, collected, exit_status>>

\* The paths the call of task i has open for writing.
CvWrites(i) ==
  IF cvjob[i].pc = "frames" THEN {cvjob[i].temp}
  ELSE IF cvjob[i].pc = "move" THEN {cvjob[i].temp, tasks[i].output_path}
  ELSE {}

InitCv ==
  /\ os_name \in {"posix", "nt"}
  /\ ffmpeg_installed = TRUE
  /\ listdir \in SUBSET CvEntries
  /\ out_dir \in BOOLEAN
  /\ cvjob = <<>>
  /\ files = {}
  /\ dpc = "scan" /\ tasks = <<>> /\ di = 0
  /\ futures = <<>> /\ collected = <<>> /\ exit_status = {}
  /\ nresults = <<>>
  /\ WorkerInit

CvWorkerStep(i) == CvStart(i) \/ CvOpenWriter(i) \/ CvFrames(i) \/ CvMove(i)

CvWorker == \E i \in 1..Len(tasks) : CvWorkerStep(i)

NextCv == CvScan \/ CvSubmit \/ CvCollect \/ CvWorker

\* src/shuiyin.py from its start to its end.
SpecCv == InitCv /\ [][NextCv]_vars

\* ===================================================================== claims
\* The future of the task the worker runs or has last run.
Outcome == IF job = 0 THEN "none" ELSE futures[job].outcome

C2_SuccessOnlyOnZeroExit ==
  /\ Outcome = "returned" => (process # 0 /\ returncode = <<0>>)
  /\ Outcome = "raised" => (attempts = max_retries /\ retry_count = max_retries)

\* C3: a failed metadata query (non-numeric or empty output, timeout) does not
\* fail the attempt: the handler is never entered with that failure.
C3_MetadataFailureNotFatal ==
  ~(pc = "except" /\ exc = "MetadataQuery")

\* C4: a child whose frame counter has not advanced since the attempt began is
\* not monitored any more once StallWindow + SelectTimeout seconds have passed:
\* no iteration of the monitor loop begins later than that.
C4_StallAbortedWithinWindow ==
  (pc = "monitor" /\ pstat = "running" /\ ~advanced)
    => now - start_time <= StallWindow + SelectTimeout

\* C5: after a failed attempt no file is at the output path at the moment the
\* next attempt begins or the failure of the job is raised.
C5_NoFileAfterFailedAttempt ==
  [][ ( \/ (pc = "loop" /\ pc' = "probe" /\ retry_count > 0)
        \/ (pc = "backoff" /\ pc' = "idle") )
      => output_video_path \notin files ]_vars

\* C6: no child of an earlier attempt of the job is running once the next
\* attempt has begun, and no child is running once the job has failed.
C6_NoChildLeftRunning ==
  /\ job \notin orphans
  /\ Outcome = "raised" => pstat # "running"

\* C7: the attempts made never exceed max_retries; a call that made an attempt
\* and did not see a child exit with zero ends Failed after exactly max_retries
\* attempts, and the backoff waits number one less than the attempts: none
\* follows the last failed attempt.
C7_ExactlyMaxRetriesAttempts ==
  /\ attempts <= (IF max_retries > 0 THEN max_retries ELSE 0)
  /\ Len(slept) <= attempts
  /\ Len(slept) = 0 \/ Len(slept) < max_retries
  /\ (pc = "idle" /\ attempts > 0) =>
       \/ Outcome = "returned" /\ returncode = <<0>> /\ Len(slept) = attempts - 1
       \/ /\ Outcome = "raised"
          /\ attempts = max_retries
          /\ retry_count = max_retries
          /\ Len(slept) = max_retries - 1

\* A call with the default max_retries = 3 has failed after three attempts.
C7_Witness ==
  /\ pc = "idle" /\ Outcome = "raised" /\ max_retries = DefaultMaxRetries
  /\ attempts = DefaultMaxRetries /\ Len(slept) = DefaultMaxRetries - 1

\* C8: the exception that reports a failed job carries the failure reason of
\* its last attempt.
C8_FailureCarriesReason ==
  Outcome = "raised" => futures[job].message[1] = exc

\* C9: the wait after the k-th failed attempt is BaseDelay * k, so the waits
\* of one call are 5, 10, 15, ... and strictly increasing; a wait follows only
\* a failed attempt that is not the last one.
C9_BackoffDelays ==
  /\ \A k \in 1..Len(slept) :
       /\ slept[k] = BaseDelay * k
       /\ k > 1 => slept[k - 1] < slept[k]
  /\ Len(slept) > 0 => (wait_time = slept[Len(slept)] /\ Len(slept) < max_retries)

\* Two waits were made in one call: the second and third attempts followed.
C9_Witness ==
  Len(slept) = 2 /\ pc = "probe" /\ attempts = 3

\* C10: the script ends with a non-zero status whenever a job failed.
C10_ExitStatusReflectsFailures ==
  (dpc = "exited" /\ \E i \in 1..Len(futures) : futures[i].outcome = "raised")
    => exit_status # {0}

\* C11: jobs are isolated in the dispatcher: a future is finished only by the
\* call that ran its own task, whatever the other futures did; the collect
\* loop takes the futures in submission order without skipping one, whether
\* the earlier ones raised or returned; and the script does not end before
\* every task was run and its result taken.
C11_JobIsolation ==
  /\ \A i \in 1..Len(futures) :
       /\ futures[i].state \in {"pending", "running", "finished"}
       /\ futures[i].state = "finished" => nresults[i] = 1
       /\ futures[i].state = "running" => (job = i /\ pc # "idle")
       /\ (i < job) => futures[i].state = "finished"
  /\ \A k \in 1..Len(collected) : collected[k].future = k
  /\ dpc = "collect" => di = Len(collected) + 1
  /\ (dpc = "exited" /\ tasks # <<>>) =>
       \A i \in 1..Len(tasks) :
         /\ i \in DOMAIN futures
         /\ futures[i].state = "finished"
         /\ \E k \in 1..Len(collected) : collected[k].future = i

\* Both jobs of a batch failed, and each was run and its failure taken.
C11_Witness ==
  /\ dpc = "exited" /\ Len(collected) = 2 /\ job = 2
  /\ collected[1].outcome = "raised" /\ collected[2].outcome = "raised"

\* C14: an attempt is not failed by the hard timeout or by the stall check
\* when its child has already exited with status zero: at the step that
\* raises the timeout or the stall, the child is not an exited child with
\* status zero.
C14_ZeroExitNotFailedByDetector ==
  [][ (pc \in {"monitor", "readline"} /\ pc' = "except" /\ exc' \in {"Timeout", "Stall"})
      => ~(pstat = "exited" /\ pcode = 0) ]_vars

\* C15: every step of the terminator is attempted whatever the step before
\* did: the signalling steps and the grace poll are never followed at once by
\* the cleanup of the output file, only the reap is.
C15_EveryTerminatorStepAttempted ==
  [][ (pc \in {"terminate", "grace", "kill"}) => pc' # "cleanup" ]_vars

\* C20: when the first attempt of a call fails before ffmpeg was launched, the
\* file that was at the output path before the call is left as it was.
C20_PreexistingFileKept ==
  [][ (pc = "cleanup" /\ attempts = 1 /\ process = 0) => files' = files ]_vars

\* The entries of ScanEntries whose lower-cased name ends in .mp4, .avi, .mov
\* or .mkv, listed by hand.
RecognisedEntries ==
  { <<"a", ".", "m", "p", "4">>, <<"b", ".", "M", "K", "V">>,
    <<"d", ".", "A", "v", "i">>, <<"e", ".", "m", "o", "v">> }

\* C13: once the folder is scanned there is exactly one task per entry with a
\* recognised extension and none for any other entry, each with its input and
\* output path; one future is submitted per task, never more.
C13_OneJobPerRecognisedEntry ==
  /\ dpc \in {"submit", "collect"} =>
       /\ Len(tasks) = Cardinality(listdir \cap RecognisedEntries)
       /\ { tasks[i].input_path : i \in 1..Len(tasks) }
            = { join(input_folder, f) : f \in listdir \cap RecognisedEntries }
       /\ \A i \in 1..Len(tasks) :
            \E f \in listdir \cap RecognisedEntries :
              /\ tasks[i].input_path = join(input_folder, f)
              /\ tasks[i].output_path = join(output_folder, f)
  /\ (dpc = "exited" /\ ffmpeg_installed) => listdir \cap RecognisedEntries = {}
  /\ Len(futures) <= Len(tasks)
  /\ dpc = "submit" => Len(futures) = di - 1
  /\ dpc = "collect" => Len(futures) = Len(tasks)

\* A folder of three recognised videos and one other file gave three futures.
C13_Witness ==
  /\ dpc = "collect" /\ Len(futures) = 3
  /\ Cardinality(listdir) = 4 /\ Cardinality(listdir \cap RecognisedEntries) = 3

C18_OnlyOwnProcessSignalled ==
  pid # "hit"

\* C19: the supervisor never makes the tool block: the child is never stopped
\* in a write to a pipe that the supervisor holds and does not read.
C19_ToolNeverBlocked ==
  ~Blocked

\* C12: no two jobs of a batch have the same path open for writing at the
\* same time: the temporary and output paths of the calls that are running
\* are distinct from one job to the other.
C12_NoSharedWritePath ==
  \A i, j \in 1..Len(cvjob) :
    i # j => CvWrites(i) \cap CvWrites(j) = {}

\* C16: while an attempt is monitored the supervisor is never suspended in a
\* read that only the child can end: as long as the child runs and writes
\* nothing, a step of the supervisor itself is possible, so that its timeout
\* and stall checks are evaluated.
OwnStep ==
  \/ LoopTest \/ Probe \/ Popen \/ Monitor \/ (pstat # "running" /\ Readline)
  \/ CheckResult \/ Except \/ Terminate \/ Grace \/ Kill \/ Reap \/ Cleanup
  \/ Backoff

C16_ReadNeverBlocks ==
  (pc \in {"monitor", "readline"}) => ENABLED OwnStep
====
